---- MODULE Spec2Model ----
(***************************************************************************)
(* A model of packages/htmlbars-runtime/lib/morph.ts: the Bounds range     *)
(* algorithms (clear, insertBoundsBefore, clearWithComment,                *)
(* renderIntoBounds), the EmptyableMorph state machine (Appending, Empty,  *)
(* HasContent) and TemplateMorph.                                          *)
(*                                                                         *)
(* The DOM is a map from each parent element to the sequence of its child  *)
(* nodes.  Nodes are numbered 1..created in creation order; a node that    *)
(* is in no child list is detached.  Bounds and RenderResult objects live  *)
(* in a heap (a sequence of records) and are referred to by their index,   *)
(* so that object identity and in-place mutation by rerender() are         *)
(* visible.  Every operation is one atomic step; the DOM calls and field   *)
(* assignments it made, in program order, are kept in trace.               *)
(***************************************************************************)
EXTENDS Integers, Sequences, FiniteSets, TLC

\* Size of the node pool: no operation runs that could create a node beyond it.
MaxNodes == 6
\* Largest number of unrelated children the parent starts with.
MaxSiblings == 2
\* Largest number of nodes one piece of content (one evaluation) produces.
MaxContent == 2

\* Number of nodes the range algorithms are tried on.
MaxRangeNodes == 5
\* Nodes ever created while two morphs share the parent.
MaxSharedNodes == 5

\* null / undefined references (nodes and heap objects are numbered from 1).
NULL == 0
\* Parent elements.  The morph lives in MorphParent.
Parents == {"P", "Q"}
MorphParent == "P"
\* parentNode of a node that is in no child list.
Detached == "none"
Templates == {"t1", "t2"}
NoTemplate == "none"

VARIABLES
    dom,                \* [Parents -> Seq(node)]: each parent's childNodes
    created,            \* number of nodes created so far
    comments,           \* the nodes made by createComment('')
    heap,               \* Seq of Bounds / RenderResult objects
    currentOperations,  \* EmptyableMorph.currentOperations
    lastResult,         \* TemplateMorph.lastResult (heap index or NULL)
    sibling,            \* currentOperations of a second morph in the same parent
    op,                 \* the operation that produced this state, with its arguments
    past,               \* the two operations before it, oldest first
    pre,                \* the state the operation started from
    trace,              \* DOM calls and assignments of the operation, in order
    threw,              \* the operation ended in an exception
    ret,                \* the node the operation returned, NULL if none
    retObj              \* the object the operation returned (heap index), NULL if none

vars == <<dom, created, comments, heap, currentOperations, lastResult, sibling,
          op, past, pre, trace, threw, ret, retObj>>

----------------------------------------------------------------------------
(* Sequences *)

Has(s, n) == \E i \in 1..Len(s) : s[i] = n
IndexOf(s, n) == CHOOSE i \in 1..Len(s) : s[i] = n
Without(s, n) == SelectSeq(s, LAMBDA x : x # n)
InsertAt(s, i, n) == SubSeq(s, 1, i - 1) \o <<n>> \o SubSeq(s, i, Len(s))
Range(s) == {s[i] : i \in 1..Len(s)}
Ev(e, n) == [e |-> e, n |-> n]
CountEv(log, e) == Cardinality({i \in 1..Len(log) : log[i].e = e})

----------------------------------------------------------------------------
(* The DOM calls the source makes *)

\* node.parentNode
ParentNode(d, n) ==
    IF \E p \in Parents : Has(d[p], n)
    THEN CHOOSE p \in Parents : Has(d[p], n)
    ELSE Detached

\* node.nextSibling
NextSibling(d, n) ==
    IF ParentNode(d, n) = Detached THEN NULL
    ELSE LET s == d[ParentNode(d, n)]
             i == IndexOf(s, n)
         IN IF i = Len(s) THEN NULL ELSE s[i + 1]

\* parent.removeChild(node) throws NotFoundError unless node is a child of parent.
CanRemoveChild(d, parent, n) == Has(d[parent], n)
RemoveChild(d, parent, n) == [d EXCEPT ![parent] = Without(@, n)]

\* dom.insertBefore(parent, node, reference): parent.insertBefore(node, reference).
\* Throws NotFoundError when reference is a node that is no child of parent.  The
\* node leaves the child list it was in; a reference that is the node itself
\* stands for the node's next sibling.
CanInsertBefore(d, parent, n, ref) == ref = NULL \/ Has(d[parent], ref)
InsertBefore(d, parent, n, ref) ==
    LET r == IF ref = n THEN NextSibling(d, n) ELSE ref
        removed == [p \in Parents |-> Without(d[p], n)]
        s == removed[parent]
        at == IF r = NULL THEN Len(s) + 1 ELSE IndexOf(s, r)
    IN [removed EXCEPT ![parent] = InsertAt(s, at, n)]

----------------------------------------------------------------------------
(* Range algorithms *)

\* Mutant: the loop tests node === last before it removes the node.
RECURSIVE ClearLoop_KeepsLast(_, _, _, _)
ClearLoop_KeepsLast(d, parent, node, last) ==
    IF node = NULL
    THEN [dom |-> d, ret |-> NULL, threw |-> FALSE, log |-> <<>>]
    ELSE LET next == NextSibling(d, node)
         IN IF node = last
            THEN [dom |-> d, ret |-> next, threw |-> FALSE, log |-> <<>>]
            ELSE IF ~CanRemoveChild(d, parent, node)
            THEN [dom |-> d, ret |-> NULL, threw |-> TRUE, log |-> <<>>]
            ELSE LET r == ClearLoop_KeepsLast(RemoveChild(d, parent, node), parent,
                                              next, last)
                 IN [r EXCEPT !.log = <<Ev("remove", node)>> \o @]

\* Mutant: the loop never tests node === last and runs to the parent's end.
RECURSIVE ClearLoop_ToEnd(_, _, _, _)
ClearLoop_ToEnd(d, parent, node, last) ==
    IF node = NULL
    THEN [dom |-> d, ret |-> NULL, threw |-> FALSE, log |-> <<>>]
    ELSE LET next == NextSibling(d, node)
         IN IF ~CanRemoveChild(d, parent, node)
            THEN [dom |-> d, ret |-> NULL, threw |-> TRUE, log |-> <<>>]
            ELSE LET r == ClearLoop_ToEnd(RemoveChild(d, parent, node), parent,
                                          next, last)
                 IN [r EXCEPT !.log = <<Ev("remove", node)>> \o @]

\* The while loop of clear(): node is the loop variable.
RECURSIVE ClearLoop(_, _, _, _)
ClearLoop(d, parent, node, last) ==
    IF node = NULL
    THEN [dom |-> d, ret |-> NULL, threw |-> FALSE, log |-> <<>>]
    ELSE LET next == NextSibling(d, node)
         IN IF ~CanRemoveChild(d, parent, node)
            THEN [dom |-> d, ret |-> NULL, threw |-> TRUE, log |-> <<>>]
            ELSE IF node = last
            THEN [dom |-> RemoveChild(d, parent, node), ret |-> next,
                  threw |-> FALSE, log |-> <<Ev("remove", node)>>]
            ELSE LET r == ClearLoop(RemoveChild(d, parent, node), parent, next, last)
                 IN [r EXCEPT !.log = <<Ev("remove", node)>> \o @]

\* clear(bounds); b is the record of the accessors' values.
clear(d, b) == ClearLoop(d, b.parent, b.first, b.last)

\* The while loop of insertBoundsBefore(): current is the loop variable.
RECURSIVE InsertLoop(_, _, _, _, _)
InsertLoop(d, parent, current, last, nextSibling) ==
    IF current = NULL
    THEN [dom |-> d, threw |-> FALSE, log |-> <<>>]
    ELSE IF ~CanInsertBefore(d, parent, current, nextSibling)
    THEN [dom |-> d, threw |-> TRUE, log |-> <<>>]
    ELSE LET d2 == InsertBefore(d, parent, current, nextSibling)
         IN IF current = last
            THEN [dom |-> d2, threw |-> FALSE, log |-> <<Ev("insert", current)>>]
            ELSE LET r == InsertLoop(d2, parent, NextSibling(d2, current), last,
                                     nextSibling)
                 IN [r EXCEPT !.log = <<Ev("insert", current)>> \o @]

\* A null Bounds reference.
NullBounds == [parent |-> Detached, first |-> NULL, last |-> NULL]

\* insertBoundsBefore(parent, bounds, reference, dom)
insertBoundsBefore(d, parent, b, reference) ==
    LET nextSibling == IF reference # NullBounds THEN reference.first ELSE NULL
    IN InsertLoop(d, parent, b.first, b.last, nextSibling)

\* Mutant: the constructor stores its endpoints the wrong way round.
ConcreteBounds_Swapped(parent, first, last) ==
    [kind |-> "ConcreteBounds", parent |-> parent, first |-> last, last |-> first,
     template |-> NoTemplate]

\* new ConcreteBounds(parent, first, last): the object as its accessors
\* parentElement(), firstNode() and lastNode() show it.
ConcreteBounds(parent, first, last) ==
    [kind |-> "ConcreteBounds", parent |-> parent, first |-> first, last |-> last,
     template |-> NoTemplate]

\* new SingleNodeBounds(parentNode, node): firstNode() and lastNode() both
\* return node.
SingleNodeBounds(parentNode, node) ==
    [kind |-> "SingleNodeBounds", parent |-> parentNode, first |-> node,
     last |-> node, template |-> NoTemplate]

\* The classes of this file that implement Bounds.
BoundsKinds == {"ConcreteBounds", "SingleNodeBounds"}

\* Mutant: the comment is appended at the end of the parent.
clearWithComment_AtEnd(d, b, c) ==
    LET r == clear(d, b)
    IN [dom |-> InsertBefore(r.dom, b.parent, c, NULL),
        obj |-> [kind |-> "ConcreteBounds", parent |-> b.parent, first |-> c,
                 last |-> c, template |-> NoTemplate],
        made |-> {c}, threw |-> r.threw,
        log |-> r.log \o <<Ev("createComment", c), Ev("insert", c)>>]

\* clearWithComment(bounds, dom); c is the node createComment('') makes.  The
\* returned ConcreteBounds is obj.
clearWithComment(d, b, c) ==
    LET r == clear(d, b)
    IN IF r.threw
       THEN [dom |-> r.dom, obj |-> NullBounds, made |-> {}, threw |-> TRUE,
             log |-> r.log]
       ELSE IF ~CanInsertBefore(r.dom, b.parent, c, r.ret)
       THEN [dom |-> r.dom, obj |-> NullBounds, made |-> {c}, threw |-> TRUE,
             log |-> r.log \o <<Ev("createComment", c)>>]
       ELSE [dom |-> InsertBefore(r.dom, b.parent, c, r.ret),
             obj |-> ConcreteBounds(b.parent, c, c), made |-> {c}, threw |-> FALSE,
             log |-> r.log \o <<Ev("createComment", c), Ev("insert", c)>>]

----------------------------------------------------------------------------
(* EmptyableMorph and its operation states.  co is the currentOperations  *)
(* object: its class and the fields of that class.  h is the heap.  Each   *)
(* method yields the DOM and currentOperations it leaves, the comment      *)
(* nodes it made, whether it threw, and its log.                           *)

\* new Appending(this, this.frame.dom())
Appending == [class |-> "Appending", comment |-> NULL, bounds |-> NULL]

\* new HasContent(parent, dom, bounds)
HasContent(b) == [class |-> "HasContent", comment |-> NULL, bounds |-> b]

\* new Empty(parent, dom, nextSibling); c is the node createComment('') makes.
Empty(d, c, nextSibling) ==
    IF ~CanInsertBefore(d, MorphParent, c, nextSibling)
    THEN [dom |-> d, co |-> Appending, threw |-> TRUE,
          log |-> <<Ev("createComment", c)>>]
    ELSE [dom |-> InsertBefore(d, MorphParent, c, nextSibling),
          co |-> [class |-> "Empty", comment |-> c, bounds |-> NULL],
          threw |-> FALSE,
          log |-> <<Ev("createComment", c), Ev("insert", c)>>]

\* Appending.firstNode / Empty.firstNode / HasContent.firstNode
firstNode(co, h) ==
    CASE co.class = "Appending" -> NULL
      [] co.class = "Empty" -> co.comment
      [] co.class = "HasContent" -> h[co.bounds].first

\* Appending.lastNode / Empty.lastNode / HasContent.lastNode
lastNode(co, h) ==
    CASE co.class = "Appending" -> NULL
      [] co.class = "Empty" -> co.comment
      [] co.class = "HasContent" -> h[co.bounds].last

\* Appending / Empty / HasContent .nextSiblingForContent
nextSiblingForContent(co, h) ==
    CASE co.class = "Appending" -> NULL
      [] co.class = "Empty" -> co.comment
      [] co.class = "HasContent" -> h[co.bounds].first

\* Appending.didBecomeEmpty
Appending_didBecomeEmpty(d, co, c) ==
    LET e == Empty(d, c, NULL)
    IN IF e.threw
       THEN [dom |-> e.dom, co |-> co, made |-> {c}, threw |-> TRUE, log |-> e.log]
       ELSE [dom |-> e.dom, co |-> e.co, made |-> {c}, threw |-> FALSE,
             log |-> e.log \o <<Ev("currentOperations", NULL)>>]

\* Mutant: the second didBecomeEmpty drops the placeholder.
Empty_didBecomeEmpty_DropsComment(d, co) ==
    [dom |-> RemoveChild(d, MorphParent, co.comment), co |-> co, made |-> {},
     threw |-> FALSE, log |-> <<Ev("remove", co.comment)>>]

\* Empty.didBecomeEmpty
Empty_didBecomeEmpty(d, co) ==
    [dom |-> d, co |-> co, made |-> {}, threw |-> FALSE, log |-> <<>>]

\* Mutant: the placeholder is appended at the end, not at the vacated position.
HasContent_didBecomeEmpty_AtEnd(d, h, co, c) ==
    LET r == clear(d, h[co.bounds])
        e == Empty(r.dom, c, NULL)
    IN [dom |-> e.dom, co |-> e.co, made |-> {c}, threw |-> FALSE,
        log |-> r.log \o e.log \o <<Ev("currentOperations", NULL)>>]

\* HasContent.didBecomeEmpty
HasContent_didBecomeEmpty(d, h, co, c) ==
    LET r == clear(d, h[co.bounds])
    IN IF r.threw
       THEN [dom |-> r.dom, co |-> co, made |-> {}, threw |-> TRUE, log |-> r.log]
       ELSE LET e == Empty(r.dom, c, r.ret)
            IN IF e.threw
               THEN [dom |-> e.dom, co |-> co, made |-> {c}, threw |-> TRUE,
                     log |-> r.log \o e.log]
               ELSE [dom |-> e.dom, co |-> e.co, made |-> {c}, threw |-> FALSE,
                     log |-> r.log \o e.log \o <<Ev("currentOperations", NULL)>>]

\* EmptyableMorph.didBecomeEmpty
didBecomeEmpty(d, h, co, c) ==
    CASE co.class = "Appending" -> Appending_didBecomeEmpty(d, co, c)
      [] co.class = "Empty" -> Empty_didBecomeEmpty(d, co)
      [] co.class = "HasContent" -> HasContent_didBecomeEmpty(d, h, co, c)

\* Appending.didInsertContent
Appending_didInsertContent(d, co, b) ==
    [dom |-> d, co |-> HasContent(b), made |-> {}, threw |-> FALSE,
     log |-> <<Ev("currentOperations", NULL)>>]

\* Mutant: the placeholder is left in the parent.
Empty_didInsertContent_KeepsComment(d, co, b) ==
    [dom |-> d, co |-> HasContent(b), made |-> {}, threw |-> FALSE,
     log |-> <<Ev("currentOperations", NULL)>>]

\* Mutant: currentOperations is reassigned before the placeholder is removed.
Empty_didInsertContent_AssignsFirst(d, co, b) ==
    [dom |-> RemoveChild(d, MorphParent, co.comment), co |-> HasContent(b),
     made |-> {}, threw |-> FALSE,
     log |-> <<Ev("currentOperations", NULL), Ev("remove", co.comment)>>]

\* Empty.didInsertContent: comment.parentNode is null for a detached comment.
Empty_didInsertContent(d, co, b) ==
    IF ParentNode(d, co.comment) = Detached
    THEN [dom |-> d, co |-> co, made |-> {}, threw |-> TRUE, log |-> <<>>]
    ELSE [dom |-> RemoveChild(d, ParentNode(d, co.comment), co.comment),
          co |-> HasContent(b), made |-> {}, threw |-> FALSE,
          log |-> <<Ev("remove", co.comment), Ev("currentOperations", NULL)>>]

\* Mutant: the old content is cleared but the new bounds are not adopted.
HasContent_didInsertContent_KeepsBounds(d, h, co, b) ==
    LET r == clear(d, h[co.bounds])
    IN [dom |-> r.dom, co |-> co, made |-> {}, threw |-> r.threw, log |-> r.log]

\* Mutant: clear(bounds) for clear(this.bounds): the new content is cleared.
HasContent_didInsertContent_ClearsNew(d, h, co, b) ==
    LET r == clear(d, h[b])
    IN [dom |-> r.dom, co |-> [co EXCEPT !.bounds = b], made |-> {},
        threw |-> r.threw, log |-> r.log \o <<Ev("bounds", NULL)>>]

\* Mutant: the new bounds are adopted without clearing the old ones.
HasContent_didInsertContent_Leaks(d, h, co, b) ==
    [dom |-> d, co |-> [co EXCEPT !.bounds = b], made |-> {}, threw |-> FALSE,
     log |-> <<Ev("bounds", NULL)>>]

\* HasContent.didInsertContent
HasContent_didInsertContent(d, h, co, b) ==
    LET r == clear(d, h[co.bounds])
    IN IF r.threw
       THEN [dom |-> r.dom, co |-> co, made |-> {}, threw |-> TRUE, log |-> r.log]
       ELSE [dom |-> r.dom, co |-> [co EXCEPT !.bounds = b], made |-> {},
             threw |-> FALSE, log |-> r.log \o <<Ev("bounds", NULL)>>]

\* EmptyableMorph.didInsertContent
didInsertContent(d, h, co, b) ==
    CASE co.class = "Appending" -> Appending_didInsertContent(d, co, b)
      [] co.class = "Empty" -> Empty_didInsertContent(d, co, b)
      [] co.class = "HasContent" -> HasContent_didInsertContent(d, h, co, b)

----------------------------------------------------------------------------
(* What a subclass does before it reports content: it renders k new nodes, *)
(* numbered after the `made` nodes that exist, as consecutive children of  *)
(* the morph's parent, in order, before nextSibling.                       *)

RECURSIVE RenderNodes(_, _, _, _)
RenderNodes(d, made, k, nextSibling) ==
    IF k = 0 THEN d
    ELSE RenderNodes(InsertBefore(d, MorphParent, made + 1, nextSibling),
                     made + 1, k - 1, nextSibling)

RenderLog(made, k) == [i \in 1..k |-> Ev("insert", made + i)]

\* template.evaluate(morph, nextSibling): renders k nodes before nextSibling in
\* the morph's parent and returns a new RenderResult over them, which becomes
\* the last object of the heap; the log keeps the anchor it was given.  Throws
\* when nextSibling is a node that is no child of the morph's parent.
RenderResult(template, first, last) ==
    [kind |-> "RenderResult", parent |-> MorphParent, first |-> first, last |-> last,
     template |-> template]

evaluate(d, h, template, nextSibling, k, made) ==
    IF ~CanInsertBefore(d, MorphParent, made + 1, nextSibling)
    THEN [dom |-> d, heap |-> h, made |-> {}, threw |-> TRUE,
          log |-> <<Ev("evaluate", nextSibling)>>]
    ELSE [dom |-> RenderNodes(d, made, k, nextSibling),
          heap |-> Append(h, RenderResult(template, made + 1, made + k)),
          made |-> (made + 1)..(made + k), threw |-> FALSE,
          log |-> <<Ev("evaluate", nextSibling)>> \o RenderLog(made, k)]

\* Mutant: the template is evaluated before the bounds are cleared.
renderIntoBounds_EvaluatesFirst(d, h, template, b, k, made) ==
    LET e == evaluate(d, h, template, b.first, k, made)
        r == clear(e.dom, b)
    IN [e EXCEPT !.dom = r.dom, !.threw = e.threw \/ r.threw, !.log = @ \o r.log]

\* renderIntoBounds(template, bounds, morph)
renderIntoBounds(d, h, template, b, k, made) ==
    LET r == clear(d, b)
    IN IF r.threw
       THEN [dom |-> r.dom, heap |-> h, made |-> {}, threw |-> TRUE, log |-> r.log]
       ELSE LET e == evaluate(r.dom, h, template, r.ret, k, made)
            IN [e EXCEPT !.log = r.log \o @]

\* result.rerender(): the result patches itself in place and may change its own
\* extent.  It stays as it is ("same"), renders one more node after its last
\* node ("grow"), or drops its first node when it has more than one ("shrink").
RerenderKinds == {"same", "grow", "shrink"}

rerender(d, h, result, how, made) ==
    LET r == h[result]
    IN CASE how = "grow" ->
              [dom |-> InsertBefore(d, r.parent, made + 1, NextSibling(d, r.last)),
               heap |-> [h EXCEPT ![result].last = made + 1],
               made |-> {made + 1},
               log |-> <<Ev("rerender", NULL), Ev("insert", made + 1)>>]
         [] how = "shrink" /\ r.first # r.last ->
              [dom |-> RemoveChild(d, r.parent, r.first),
               heap |-> [h EXCEPT ![result].first = NextSibling(d, r.first)],
               made |-> {},
               log |-> <<Ev("rerender", NULL), Ev("remove", r.first)>>]
         [] OTHER ->
              [dom |-> d, heap |-> h, made |-> {}, log |-> <<Ev("rerender", NULL)>>]

----------------------------------------------------------------------------
(* TemplateMorph.  lr is this.lastResult; each method yields the DOM, heap, *)
(* currentOperations and lastResult it leaves, the nodes made, whether it   *)
(* threw, and its log.                                                      *)

\* Mutant: firstNode() returns the result's last node.
TemplateMorph_firstNode_ReturnsLast(co, h, lr) ==
    IF lr # NULL THEN h[lr].last ELSE firstNode(co, h)

\* TemplateMorph.firstNode
TemplateMorph_firstNode(co, h, lr) ==
    IF lr # NULL THEN h[lr].first ELSE firstNode(co, h)

\* TemplateMorph.lastNode
TemplateMorph_lastNode(co, h, lr) ==
    IF lr # NULL THEN h[lr].last ELSE lastNode(co, h)

\* Mutant: the old content is cleared before the template is evaluated, at the
\* anchor clear() returns (as renderIntoBounds does).
appendTemplate_ClearsFirst(d, h, co, lr, template, nextSibling, k, made) ==
    LET c == IF co.class = "HasContent" THEN clear(d, h[co.bounds])
             ELSE [dom |-> d, ret |-> nextSibling, threw |-> FALSE, log |-> <<>>]
        e == evaluate(c.dom, h, template, c.ret, k, made)
        result == Len(e.heap)
        r == IF co.class = "HasContent"
             THEN [dom |-> e.dom, co |-> HasContent(result), threw |-> FALSE,
                   log |-> <<Ev("bounds", NULL)>>]
             ELSE didInsertContent(e.dom, e.heap, co, result)
    IN [dom |-> r.dom, heap |-> e.heap, co |-> r.co, lastResult |-> result,
        made |-> e.made, threw |-> r.threw,
        log |-> c.log \o e.log \o <<Ev("lastResult", NULL)>> \o r.log]

\* TemplateMorph.appendTemplate
appendTemplate(d, h, co, lr, template, nextSibling, k, made) ==
    LET e == evaluate(d, h, template, nextSibling, k, made)
    IN IF e.threw
       THEN [dom |-> e.dom, heap |-> e.heap, co |-> co, lastResult |-> lr,
             made |-> e.made, threw |-> TRUE, log |-> e.log]
       ELSE LET result == Len(e.heap)
                r == didInsertContent(e.dom, e.heap, co, result)
            IN [dom |-> r.dom, heap |-> e.heap, co |-> r.co, lastResult |-> result,
                made |-> e.made, threw |-> r.threw,
                log |-> e.log \o <<Ev("lastResult", NULL)>> \o r.log]

\* Mutant: every update evaluates the template again.
updateTemplate_AlwaysAppends(d, h, co, lr, template, k, how, made) ==
    appendTemplate(d, h, co, lr, template, nextSiblingForContent(co, h), k, made)

\* Mutant: a changed template is appended at the end of the parent.
updateTemplate_AnchorsAtEnd(d, h, co, lr, template, k, how, made) ==
    IF lr # NULL /\ template = h[lr].template
    THEN LET r == rerender(d, h, lr, how, made)
         IN [dom |-> r.dom, heap |-> r.heap, co |-> co, lastResult |-> lr,
             made |-> r.made, threw |-> FALSE, log |-> r.log]
    ELSE appendTemplate(d, h, co, lr, template, NULL, k, made)

\* TemplateMorph.updateTemplate; how is what rerender() turns out to do.
updateTemplate(d, h, co, lr, template, k, how, made) ==
    IF lr = NULL
    THEN appendTemplate(d, h, co, lr, template, nextSiblingForContent(co, h), k, made)
    ELSE IF template = h[lr].template
    THEN LET r == rerender(d, h, lr, how, made)
         IN [dom |-> r.dom, heap |-> r.heap, co |-> co, lastResult |-> lr,
             made |-> r.made, threw |-> FALSE, log |-> r.log]
    ELSE appendTemplate(d, h, co, lr, template, nextSiblingForContent(co, h), k, made)

\* Mutant: the cached result is kept when the morph becomes empty.
TemplateMorph_didBecomeEmpty_KeepsResult(d, h, co, lr, c) ==
    LET r == didBecomeEmpty(d, h, co, c)
    IN [dom |-> r.dom, heap |-> h, co |-> r.co, lastResult |-> lr,
        made |-> r.made, threw |-> r.threw, log |-> r.log]

\* TemplateMorph.didBecomeEmpty
TemplateMorph_didBecomeEmpty(d, h, co, lr, c) ==
    LET r == didBecomeEmpty(d, h, co, c)
    IN IF r.threw
       THEN [dom |-> r.dom, heap |-> h, co |-> r.co, lastResult |-> lr,
             made |-> r.made, threw |-> TRUE, log |-> r.log]
       ELSE [dom |-> r.dom, heap |-> h, co |-> r.co, lastResult |-> NULL,
             made |-> r.made, threw |-> FALSE,
             log |-> r.log \o <<Ev("lastResult", NULL)>>]

\* Morph.destroy: the empty method TemplateMorph inherits.
destroy(d, h, co, lr) ==
    [dom |-> d, heap |-> h, co |-> co, lastResult |-> lr, made |-> {},
     threw |-> FALSE, log |-> <<>>]

----------------------------------------------------------------------------
(* Histories *)

\* An operation: its name, the class it found in currentOperations, its
\* arguments (template, anchor, parent, bounds, reference), the nodes rendered
\* for it, the Bounds or RenderResult object made for it and the morph it was
\* called on (1: the morph of currentOperations, 2: the sibling).
NoArg == [name |-> "none", from |-> "Appending", t |-> NoTemplate, ns |-> NULL,
          parent |-> Detached, bounds |-> NullBounds, reference |-> NullBounds,
          nodes |-> {}, obj |-> NULL, morph |-> 1]

Called(name) == [NoArg EXCEPT !.name = name, !.from = currentOperations.class]
prevOp == past[2]
prevPrevOp == past[1]

Snapshot == [dom |-> dom, co |-> currentOperations, lastResult |-> lastResult,
             heap |-> heap, created |-> created, comments |-> comments,
             sibling |-> sibling]

\* The morph's parent starts with s unrelated children; nothing is rendered.
InitWith(s) ==
    /\ dom = [p \in Parents |-> IF p = MorphParent THEN [i \in 1..s |-> i] ELSE <<>>]
    /\ created = s
    /\ comments = {}
    /\ heap = <<>>
    /\ currentOperations = Appending
    /\ lastResult = NULL
    /\ sibling = Appending
    /\ op = NoArg
    /\ past = <<NoArg, NoArg>>
    /\ pre = [dom |-> dom, co |-> Appending, lastResult |-> NULL, heap |-> <<>>,
              created |-> s, comments |-> {}, sibling |-> Appending]
    /\ trace = <<>>
    /\ threw = FALSE
    /\ ret = NULL
    /\ retObj = NULL

Init == \E s \in 0..MaxSiblings : InitWith(s)

\* The anchors a subclass may render at: anywhere among the parent's children
\* while appending (the element stack decides), nextSiblingForContent() later.
Anchors ==
    IF currentOperations.class = "Appending"
    THEN Range(dom[MorphParent]) \cup {NULL}
    ELSE {nextSiblingForContent(currentOperations, heap)}

----------------------------------------------------------------------------
(* EmptyableMorph driven by a subclass *)

\* The subclass renders k nodes at an anchor and calls
\* didInsertContent(bounds(parentNode, first, last)), or, for one node,
\* didInsertContent(new SingleNodeBounds(parentNode, node)).
InsertContent(k, ns, kind) ==
    /\ created + k <= MaxNodes
    /\ kind = "SingleNodeBounds" => k = 1
    /\ LET d1 == RenderNodes(dom, created, k, ns)
           b == IF kind = "SingleNodeBounds"
                THEN SingleNodeBounds(MorphParent, created + 1)
                ELSE ConcreteBounds(MorphParent, created + 1, created + k)
           h1 == Append(heap, b)
           r == didInsertContent(d1, h1, currentOperations, Len(h1))
       IN /\ dom' = r.dom
          /\ currentOperations' = r.co
          /\ heap' = h1
          /\ created' = created + k
          /\ trace' = RenderLog(created, k) \o <<Ev("didInsertContent", NULL)>> \o r.log
          /\ threw' = r.threw
          /\ op' = [Called("didInsertContent") EXCEPT
                        !.ns = ns, !.nodes = (created + 1)..(created + k),
                        !.obj = Len(h1)]
    /\ past' = <<past[2], op>>
    /\ pre' = Snapshot
    /\ UNCHANGED <<comments, lastResult, sibling, ret, retObj>>

\* The subclass calls didBecomeEmpty().
BecomeEmpty ==
    /\ currentOperations.class # "Empty" => created + 1 <= MaxNodes
    /\ LET r == didBecomeEmpty(dom, heap, currentOperations, created + 1)
       IN /\ dom' = r.dom
          /\ currentOperations' = r.co
          /\ created' = created + Cardinality(r.made)
          /\ comments' = comments \cup r.made
          /\ trace' = <<Ev("didBecomeEmpty", NULL)>> \o r.log
          /\ threw' = r.threw
    /\ op' = Called("didBecomeEmpty")
    /\ past' = <<past[2], op>>
    /\ pre' = Snapshot
    /\ UNCHANGED <<heap, lastResult, sibling, ret, retObj>>

Next ==
    \/ \E k \in 1..MaxContent : \E ns \in Anchors : \E kind \in BoundsKinds :
           InsertContent(k, ns, kind)
    \/ BecomeEmpty

Spec == Init /\ [][Next]_vars

----------------------------------------------------------------------------
(* Properties of the EmptyableMorph state machine (Spec) *)

Children == dom[MorphParent]
PreChildren == pre.dom[MorphParent]
\* The children of s before node n, and after node n.
Before(s, n) == SubSeq(s, 1, IndexOf(s, n) - 1)
After(s, n) == SubSeq(s, IndexOf(s, n) + 1, Len(s))

\* b's first and last nodes are children of b's parent, first not after last.
WellFormed(d, b) ==
    /\ b.first # NULL /\ b.last # NULL
    /\ Has(d[b.parent], b.first) /\ Has(d[b.parent], b.last)
    /\ IndexOf(d[b.parent], b.first) <= IndexOf(d[b.parent], b.last)

\* The nodes of a well-formed b, in order.
NodesOf(d, b) ==
    SubSeq(d[b.parent], IndexOf(d[b.parent], b.first), IndexOf(d[b.parent], b.last))

\* C1: the machine starts in Appending; didInsertContent(b2) leaves it in
\* HasContent(b2) and didBecomeEmpty leaves it in Empty, whatever the state
\* before; no operation throws; Appending is never re-entered after an event.
C1_TransitionTable ==
    /\ op.name = "none" => currentOperations = Appending
    /\ op.name = "didInsertContent" =>
           ~threw /\ currentOperations = HasContent(op.obj)
    /\ op.name = "didBecomeEmpty" =>
           ~threw /\ currentOperations.class = "Empty"
    /\ op.name # "none" => currentOperations.class # "Appending"

\* C1 witness: content replaced content, after the morph had been empty.
C1_Witness ==
    /\ op.name = "didInsertContent" /\ op.from = "HasContent"
    /\ prevOp.name = "didInsertContent" /\ prevOp.from = "Empty"
    /\ currentOperations = HasContent(op.obj)

\* C2: didBecomeEmpty on HasContent(b) removes b's nodes and puts exactly one
\* new comment where they were; the other children keep their places; the morph
\* is Empty and firstNode() = lastNode() = that comment.
C2_ContentBecomesEmpty ==
    (op.name = "didBecomeEmpty" /\ op.from = "HasContent") =>
        LET b == pre.heap[pre.co.bounds]
            c == currentOperations.comment
        IN /\ ~threw
           /\ currentOperations.class = "Empty"
           /\ c > pre.created /\ comments = pre.comments \cup {c}
           /\ CountEv(trace, "createComment") = 1
           /\ Children = Before(PreChildren, b.first) \o <<c>>
                             \o After(PreChildren, b.last)
           /\ firstNode(currentOperations, heap) = c
           /\ lastNode(currentOperations, heap) = c

\* C2 witness: [A, X, Y, B] became [A, C, B].
C2_Witness ==
    /\ op.name = "didBecomeEmpty" /\ op.from = "HasContent"
    /\ PreChildren = <<1, 3, 4, 2>>
    /\ Children = <<1, 5, 2>>
    /\ currentOperations.comment = 5

\* C3: a didBecomeEmpty that follows a didBecomeEmpty changes nothing, and
\* exactly one placeholder of the morph is in the parent.
C3_EmptyIdempotence ==
    (op.name = "didBecomeEmpty" /\ prevOp.name = "didBecomeEmpty") =>
        /\ ~threw
        /\ dom = pre.dom
        /\ currentOperations = pre.co
        /\ created = pre.created /\ comments = pre.comments
        /\ Cardinality(comments \cap Range(Children)) = 1
        /\ currentOperations.comment \in Range(Children)

\* C3 witness: didBecomeEmpty twice in a row, the first one on content.
C3_Witness ==
    /\ op.name = "didBecomeEmpty" /\ prevOp.name = "didBecomeEmpty"
    /\ prevOp.from = "HasContent"
    /\ Len(Children) > 1

\* C4: from Appending, didInsertContent(b1), didBecomeEmpty, didInsertContent(b2)
\* ends in HasContent(b2) with no placeholder and no node of b1 in the parent.
C4_RoundTrip ==
    ( /\ prevPrevOp.name = "didInsertContent" /\ prevPrevOp.from = "Appending"
      /\ prevOp.name = "didBecomeEmpty"
      /\ op.name = "didInsertContent" ) =>
        /\ ~threw
        /\ currentOperations = HasContent(op.obj)
        /\ heap[op.obj].first \in Range(Children)
        /\ heap[op.obj].last \in Range(Children)
        /\ comments \cap Range(Children) = {}
        /\ prevPrevOp.nodes \cap Range(Children) = {}

\* C4 witness: the round trip done between two unrelated children.
C4_Witness ==
    /\ prevPrevOp.name = "didInsertContent" /\ prevPrevOp.from = "Appending"
    /\ prevOp.name = "didBecomeEmpty"
    /\ op.name = "didInsertContent"
    /\ Cardinality(op.nodes) = 2 /\ Cardinality(prevPrevOp.nodes) = 2
    /\ Children = <<1, 5, 6>>

\* C12: nextSiblingForContent() is null in Appending, the placeholder in Empty
\* and the first content node in HasContent; once the morph has left Appending
\* it is a node that is a child of the morph's parent.
C12_StableAnchor ==
    LET anchor == nextSiblingForContent(currentOperations, heap)
    IN /\ op.name = "none" => anchor = NULL
       /\ op.name # "none" =>
              /\ anchor # NULL
              /\ ParentNode(dom, anchor) = MorphParent
       /\ currentOperations.class = "Empty" =>
              anchor \in comments /\ anchor = created
       /\ currentOperations.class = "HasContent" =>
              /\ anchor \notin comments
              /\ anchor = CHOOSE n \in op.nodes : \A x \in op.nodes : n <= x

\* C12 witness: content replaced content twice; the anchor is the first node of
\* the latest content, with a child before it and a child after its last node.
C12_Witness ==
    /\ op.name = "didInsertContent" /\ op.from = "HasContent"
    /\ prevOp.name = "didInsertContent" /\ prevOp.from = "HasContent"
    /\ Children = <<1, 5, 6, 2>>
    /\ nextSiblingForContent(currentOperations, heap) = 5

\* C16: parentElement(), firstNode() and lastNode() of every ConcreteBounds and
\* SingleNodeBounds return the values passed at construction in every later
\* state, whatever is removed or inserted in the parent since, a clear() of
\* those very bounds included.
C16_AsConstructed ==
    \A x \in {op, prevOp, prevPrevOp} :
        x.name = "didInsertContent" =>
            /\ heap[x.obj].kind \in BoundsKinds
            /\ heap[x.obj].parent = MorphParent
            /\ heap[x.obj].first = CHOOSE n \in x.nodes : \A m \in x.nodes : n <= m
            /\ heap[x.obj].last = CHOOSE n \in x.nodes : \A m \in x.nodes : n >= m

C16_Kept ==
    \A i \in 1..Len(heap) :
        heap[i].kind \in BoundsKinds => i <= Len(heap') /\ heap'[i] = heap[i]

C16_AccessorPurity == []C16_AsConstructed /\ [][C16_Kept]_vars

\* C16 witness: a SingleNodeBounds was replaced by a two-node ConcreteBounds,
\* which was then cleared: none of their nodes is in the parent any more.
C16_Witness ==
    /\ op.name = "didBecomeEmpty" /\ op.from = "HasContent"
    /\ prevOp.name = "didInsertContent" /\ prevPrevOp.name = "didInsertContent"
    /\ heap[prevPrevOp.obj].kind = "SingleNodeBounds"
    /\ heap[prevOp.obj].kind = "ConcreteBounds"
    /\ heap[prevOp.obj].first # heap[prevOp.obj].last
    /\ ~Has(Children, heap[prevPrevOp.obj].first)
    /\ ~Has(Children, heap[prevOp.obj].first)
    /\ ~Has(Children, heap[prevOp.obj].last)
    /\ heap[prevOp.obj].first \in prevOp.nodes

\* The positions of the trace where currentOperations is reassigned.
Assignments == {i \in 1..Len(trace) : trace[i].e = "currentOperations"}

\* The events of the trace before position a that are named e, as nodes.
EarlierEv(a, e) == {trace[i].n : i \in {j \in 1..(a - 1) : trace[j].e = e}}

\* C18: each operation reassigns currentOperations at most once, exactly when
\* the class changes, and no DOM call follows the assignment: by then the old
\* content is removed and the new placeholder is a child of the parent (on
\* becoming Empty), or the old placeholder is detached (on leaving Empty).
\* Each operation's effect is complete when it returns.
C18_MutationBeforeTransition ==
    /\ ~threw
    /\ Cardinality(Assignments) <= 1
    /\ (Assignments # {}) <=> (currentOperations.class # pre.co.class)
    /\ \A a \in Assignments :
          /\ a = Len(trace)
          /\ currentOperations.class = "Empty" =>
                 LET old == IF pre.co.class = "HasContent"
                            THEN NodesOf(pre.dom, pre.heap[pre.co.bounds]) ELSE <<>>
                     c == currentOperations.comment
                 IN /\ EarlierEv(a, "remove") = Range(old)
                    /\ EarlierEv(a, "createComment") = {c}
                    /\ EarlierEv(a, "insert") = {c}
                    /\ Has(Children, c)
                    /\ Range(old) \cap Range(Children) = {}
          /\ (currentOperations.class = "HasContent" /\ pre.co.class = "Empty") =>
                 /\ EarlierEv(a, "remove") = {pre.co.comment}
                 /\ ParentNode(dom, pre.co.comment) = Detached
                 /\ Has(PreChildren, pre.co.comment)
          /\ (currentOperations.class = "HasContent" /\ pre.co.class = "Appending") =>
                 EarlierEv(a, "remove") = {}
    /\ op.name = "didBecomeEmpty" => currentOperations.class = "Empty"
    /\ op.name = "didInsertContent" =>
          /\ currentOperations = HasContent(op.obj)
          /\ \A n \in op.nodes : Has(Children, n)

\* C18 witness: content [2, 3] was cleared for placeholder 4, and new content
\* then replaced the placeholder: removal first, assignment last.
C18_Witness ==
    /\ prevOp.name = "didBecomeEmpty" /\ prevOp.from = "HasContent"
    /\ op.name = "didInsertContent" /\ op.from = "Empty"
    /\ pre.co.comment = 4
    /\ trace[Len(trace) - 1] = Ev("remove", 4)
    /\ trace[Len(trace)] = Ev("currentOperations", NULL)
    /\ ~Has(Children, 4)

\* Every node the morph has put into the parent so far: its placeholders and
\* the nodes of every bounds reported to it.
Placed == comments \cup UNION {heap[i].first..heap[i].last : i \in 1..Len(heap)}

\* C20: the nodes the morph has placed that are still attached are exactly its
\* region: none in Appending, the one placeholder in Empty, the nodes from
\* firstNode() to lastNode() in HasContent, where both are children of the
\* parent and lastNode() follows firstNode(); nothing of a superseded bounds
\* or an earlier placeholder is left attached anywhere.
C20_RegionIsAllThatIsLeft ==
    LET f == firstNode(currentOperations, heap)
        l == lastNode(currentOperations, heap)
        b == [parent |-> MorphParent, first |-> f, last |-> l]
        attached == {n \in Placed : ParentNode(dom, n) # Detached}
    IN /\ ~threw
       /\ \A n \in attached : ParentNode(dom, n) = MorphParent
       /\ currentOperations.class = "Appending" => attached = {}
       /\ currentOperations.class = "Empty" =>
              attached = {currentOperations.comment} /\ f = l /\ f \in comments
       /\ currentOperations.class = "HasContent" =>
              /\ WellFormed(dom, b)
              /\ attached = Range(NodesOf(dom, b))
              /\ NodesOf(dom, b) = [i \in 1..(l - f + 1) |-> f + i - 1]
              /\ attached \cap comments = {}
       /\ Len(Children) = Len(SelectSeq(Children, LAMBDA n : n \notin Placed))
                              + Cardinality(attached)

\* C20 witness: after content 2, placeholder 3 and content 4, only the last
\* content, 5 and 6, is left before the unrelated child.
C20_Witness ==
    /\ op.name = "didInsertContent" /\ op.from = "HasContent"
    /\ prevOp.name = "didInsertContent" /\ prevOp.from = "Empty"
    /\ Placed = 2..6
    /\ Children = <<5, 6, 1>>
    /\ firstNode(currentOperations, heap) = 5
    /\ lastNode(currentOperations, heap) = 6

----------------------------------------------------------------------------
(* TemplateMorph driven by its owner (SpecTemplate) *)

\* The anchors appendTemplate is called with: anywhere among the parent's
\* children while appending, later nextSiblingForContent() or the default null.
TemplateAnchors ==
    IF currentOperations.class = "Appending"
    THEN Range(dom[MorphParent]) \cup {NULL}
    ELSE {nextSiblingForContent(currentOperations, heap), NULL}

\* updateTemplate(template) would rerender the cached result.
SameTemplate(template) ==
    IF lastResult = NULL THEN FALSE ELSE template = heap[lastResult].template

\* The nodes an operation may still make.
Room(n) == created + n <= MaxNodes

\* A destroyed morph is not used again.
Alive == op.name # "destroy"

Done(name, template, ns, r) ==
    /\ Alive
    /\ dom' = r.dom
    /\ heap' = r.heap
    /\ currentOperations' = r.co
    /\ lastResult' = r.lastResult
    /\ created' = created + Cardinality(r.made)
    /\ threw' = r.threw
    /\ trace' = <<Ev(name, NULL)>> \o r.log
    /\ op' = [Called(name) EXCEPT !.t = template, !.ns = ns, !.nodes = r.made,
                                  !.obj = r.lastResult]
    /\ past' = <<NoArg, op>>
    /\ pre' = Snapshot
    /\ UNCHANGED <<sibling, ret, retObj>>

AppendTemplate(template, ns, k) ==
    /\ Room(k)
    /\ Done("appendTemplate", template, ns,
            appendTemplate(dom, heap, currentOperations, lastResult, template, ns, k,
                           created))
    /\ UNCHANGED comments

\* updateTemplate(template) when it evaluates the template.
UpdateTemplateFresh(template, k) ==
    /\ ~SameTemplate(template)
    /\ Room(k)
    /\ Done("updateTemplate", template, NULL,
            updateTemplate(dom, heap, currentOperations, lastResult, template, k,
                           "same", created))
    /\ UNCHANGED comments

\* updateTemplate(template) when it rerenders the cached result.
UpdateTemplateSame(template, how) ==
    /\ SameTemplate(template)
    /\ how = "grow" => Room(1)
    /\ how = "shrink" => heap[lastResult].first # heap[lastResult].last
    /\ Done("updateTemplate", template, NULL,
            updateTemplate(dom, heap, currentOperations, lastResult, template, 1,
                           how, created))
    /\ UNCHANGED comments

TemplateBecomeEmpty ==
    /\ currentOperations.class # "Empty" => Room(1)
    /\ LET r == TemplateMorph_didBecomeEmpty(dom, heap, currentOperations, lastResult,
                                             created + 1)
       IN /\ Done("didBecomeEmpty", NoTemplate, NULL, r)
          /\ comments' = comments \cup r.made

\* The owner destroys the morph (its parent list is being cleared).
Destroy ==
    /\ Done("destroy", NoTemplate, NULL,
            destroy(dom, heap, currentOperations, lastResult))
    /\ UNCHANGED comments

NextTemplate ==
    \/ \E template \in Templates : \E ns \in TemplateAnchors : \E k \in 1..MaxContent :
           AppendTemplate(template, ns, k)
    \/ \E template \in Templates : \E k \in 1..MaxContent :
           UpdateTemplateFresh(template, k)
    \/ \E template \in Templates : \E how \in RerenderKinds :
           UpdateTemplateSame(template, how)
    \/ TemplateBecomeEmpty
    \/ Destroy

SpecTemplate == Init /\ [][NextTemplate]_vars

\* C15: a morph that was never appended (still Appending) fails loudly when it
\* is destroyed or updated through updateTemplate: the call throws and leaves
\* the state machine and the DOM as they were.
C15_UnappendedFailsLoudly ==
    (op.from = "Appending" /\ op.name \in {"destroy", "updateTemplate"}) =>
        /\ threw
        /\ dom = pre.dom
        /\ currentOperations = pre.co

----------------------------------------------------------------------------
(* The range algorithms on their own (SpecRange): a DOM is drawn, then one *)
(* algorithm is applied once to arguments drawn from every node and null.  *)

\* MaxRangeNodes nodes exist: the first a are P's children, the next b are Q's,
\* the rest are detached.
InitRange ==
    \E a \in 0..MaxRangeNodes : \E b \in 0..(MaxRangeNodes - a) :
        /\ dom = [p \in Parents |->
                     IF p = MorphParent THEN [i \in 1..a |-> i]
                     ELSE [i \in 1..b |-> a + i]]
        /\ created = MaxRangeNodes
        /\ comments = {}
        /\ heap = <<>>
        /\ currentOperations = Appending
        /\ lastResult = NULL
        /\ sibling = Appending
        /\ op = NoArg
        /\ past = <<NoArg, NoArg>>
        /\ pre = [dom |-> dom, co |-> Appending, lastResult |-> NULL, heap |-> <<>>,
                  created |-> MaxRangeNodes, comments |-> {}, sibling |-> Appending]
        /\ trace = <<>>
        /\ threw = FALSE
        /\ ret = NULL
        /\ retObj = NULL

\* Every Bounds over the nodes and null, well-formed or not.
BoundsArgs == [parent : Parents, first : 0..MaxRangeNodes, last : 0..MaxRangeNodes]
\* A reference: null, or a single-node Bounds (only its firstNode() is read).
ReferenceArgs(parent) ==
    {NullBounds} \cup {[parent |-> parent, first |-> n, last |-> n] :
                          n \in 0..MaxRangeNodes}

\* No algorithm has been applied yet.
Ready == op.name = "none"

Applied ==
    /\ past' = <<past[2], op>>
    /\ pre' = Snapshot
    /\ UNCHANGED <<currentOperations, lastResult, sibling>>

ClearBounds(b) ==
    /\ LET r == clear(dom, b)
       IN /\ dom' = r.dom
          /\ ret' = r.ret
          /\ threw' = r.threw
          /\ trace' = r.log
    /\ op' = [NoArg EXCEPT !.name = "clear", !.parent = b.parent, !.bounds = b]
    /\ Applied
    /\ UNCHANGED <<created, comments, heap, retObj>>

InsertBounds(parent, b, reference) ==
    /\ LET r == insertBoundsBefore(dom, parent, b, reference)
       IN /\ dom' = r.dom
          /\ threw' = r.threw
          /\ trace' = r.log
    /\ op' = [NoArg EXCEPT !.name = "insertBoundsBefore", !.parent = parent,
                           !.bounds = b, !.reference = reference]
    /\ Applied
    /\ UNCHANGED <<created, comments, heap, ret, retObj>>

ClearWithComment(b) ==
    /\ LET r == clearWithComment(dom, b, created + 1)
       IN /\ dom' = r.dom
          /\ threw' = r.threw
          /\ trace' = r.log
          /\ created' = created + Cardinality(r.made)
          /\ comments' = comments \cup r.made
          /\ heap' = IF r.threw THEN heap ELSE Append(heap, r.obj)
          /\ retObj' = IF r.threw THEN NULL ELSE Len(heap) + 1
    /\ op' = [NoArg EXCEPT !.name = "clearWithComment", !.parent = b.parent,
                           !.bounds = b]
    /\ Applied
    /\ UNCHANGED <<ret>>

RenderIntoBounds(template, b, k) ==
    /\ LET r == renderIntoBounds(dom, heap, template, b, k, created)
       IN /\ dom' = r.dom
          /\ threw' = r.threw
          /\ trace' = r.log
          /\ created' = created + Cardinality(r.made)
          /\ heap' = r.heap
          /\ retObj' = IF r.threw THEN NULL ELSE Len(r.heap)
    /\ op' = [NoArg EXCEPT !.name = "renderIntoBounds", !.parent = b.parent,
                           !.bounds = b, !.t = template, !.nodes = 1..k]
    /\ Applied
    /\ UNCHANGED <<comments, ret>>

NextRange ==
    \/ Ready /\ \E b \in BoundsArgs : ClearBounds(b)
    \/ Ready /\ \E parent \in Parents : \E b \in BoundsArgs :
           \E reference \in ReferenceArgs(parent) : InsertBounds(parent, b, reference)
    \/ Ready /\ \E b \in BoundsArgs : ClearWithComment(b)
    \/ Ready /\ \E template \in Templates : \E b \in BoundsArgs : \E k \in 1..MaxContent :
           RenderIntoBounds(template, b, k)

SpecRange == InitRange /\ [][NextRange]_vars

----------------------------------------------------------------------------
(* Properties of TemplateMorph (SpecTemplate) *)

\* The operation was updateTemplate(t) with a cached result of the same template.
Reused ==
    /\ op.name = "updateTemplate"
    /\ pre.lastResult # NULL
    /\ op.t = pre.heap[pre.lastResult].template

\* The operation was updateTemplate(t) with a cached result of another template.
Switched ==
    /\ op.name = "updateTemplate"
    /\ pre.lastResult # NULL
    /\ op.t # pre.heap[pre.lastResult].template

\* The nodes the operation rendered, in order.
Rendered == [i \in 1..Cardinality(op.nodes) |-> pre.created + i]
\* The cached result before the operation, and its nodes.
OldResult == pre.heap[pre.lastResult]
OldNodes == NodesOf(pre.dom, OldResult)
\* Positions in trace of the removals and of the insertions.
Removals == {i \in 1..Len(trace) : trace[i].e = "remove"}
Insertions == {i \in 1..Len(trace) : trace[i].e = "insert"}

\* C8: updateTemplate(t) evaluates the template exactly when there is no
\* lastResult or t is not lastResult.template; otherwise it calls rerender()
\* once and leaves currentOperations, lastResult and the heap objects' number
\* alone.  The second of two updateTemplate(t) in a row never evaluates.
C8_TemplateIdentityReuse ==
    op.name = "updateTemplate" =>
        /\ ~threw
        /\ CountEv(trace, "evaluate") = (IF Reused THEN 0 ELSE 1)
        /\ CountEv(trace, "rerender") = (IF Reused THEN 1 ELSE 0)
        /\ Reused =>
               /\ currentOperations = pre.co
               /\ lastResult = pre.lastResult
               /\ Len(heap) = Len(pre.heap)
               /\ CountEv(trace, "currentOperations") = 0
               /\ CountEv(trace, "bounds") = 0
               /\ CountEv(trace, "lastResult") = 0
        /\ (prevOp.name = "updateTemplate" /\ prevOp.t = op.t) => Reused

\* C8 witness: updateTemplate(t) twice; the second one only rerendered.
C8_Witness ==
    /\ op.name = "updateTemplate" /\ prevOp.name = "updateTemplate"
    /\ prevOp.t = op.t /\ prevOp.nodes # {}
    /\ CountEv(trace, "rerender") = 1 /\ CountEv(trace, "evaluate") = 0
    /\ lastResult = pre.lastResult

\* C9: updateTemplate(t2) on a result of t1 # t2 leaves none of the old
\* result's nodes in the parent, puts the new result's nodes where they were,
\* makes the new result lastResult and the bounds of HasContent.
C9_SwitchReplacesInPlace ==
    Switched =>
        /\ ~threw
        /\ lastResult = Len(heap) /\ lastResult # pre.lastResult
        /\ heap[lastResult].template = op.t
        /\ heap[lastResult].first = Rendered[1]
        /\ heap[lastResult].last = Rendered[Len(Rendered)]
        /\ currentOperations = HasContent(lastResult)
        /\ Range(OldNodes) \cap Range(Children) = {}
        /\ Children = Before(PreChildren, OldResult.first) \o Rendered
                          \o After(PreChildren, OldResult.last)

\* C9 witness: [A, X, Y, B] with X, Y from t1 became [A, Z, B] with Z from t2.
C9_Witness ==
    /\ Switched /\ prevOp.name = "updateTemplate" /\ prevOp.t # op.t
    /\ PreChildren = <<1, 3, 4, 2>>
    /\ Children = <<1, 5, 2>>

\* C10 (as claimed): on a template switch every node of the old result is
\* removed before any node of the new result is inserted.
C10_RemovesBeforeInserting ==
    Switched => \A i \in Removals : \A j \in Insertions : i < j

\* C10 (amended): on a template switch the new result's nodes are all inserted,
\* just before the old result's first node, while the old nodes are still in
\* the parent; then every old node is removed, before updateTemplate returns.
C10_InsertsBeforeRemoving ==
    Switched =>
        /\ \A i \in Removals : \A j \in Insertions : j < i
        /\ {trace[i].n : i \in Removals} = Range(OldNodes)
        /\ {trace[j].n : j \in Insertions} = op.nodes
        /\ op.nodes # {}
        /\ Range(OldNodes) \cap Range(Children) = {}
        /\ op.nodes \subseteq Range(Children)

\* C10 witness: a switch that inserted two nodes and then removed two.
C10_Witness ==
    /\ Switched
    /\ Cardinality(Insertions) = 2 /\ Cardinality(Removals) = 2
    /\ trace[Len(trace) - 1].e = "remove"

\* C11: lastResult is set to null by every didBecomeEmpty and assigned a new
\* result by every evaluation that is appended, and by nothing else; so it is
\* non-null exactly in HasContent, whose bounds is then the same object.
C11_LastResultTracksContent ==
    /\ ~threw
    /\ (lastResult # NULL) <=> (currentOperations.class = "HasContent")
    /\ currentOperations.class = "HasContent" => currentOperations.bounds = lastResult
    /\ op.name = "didBecomeEmpty" =>
           lastResult = NULL /\ CountEv(trace, "lastResult") = 1
    /\ op.name \in {"appendTemplate", "updateTemplate"} =>
           /\ CountEv(trace, "lastResult") = CountEv(trace, "evaluate")
           /\ CountEv(trace, "evaluate") = 1 =>
                  lastResult = Len(heap) /\ Len(heap) = Len(pre.heap) + 1
           /\ CountEv(trace, "evaluate") = 0 =>
                  lastResult = pre.lastResult /\ Len(heap) = Len(pre.heap)
    /\ op.name \notin {"didBecomeEmpty", "appendTemplate", "updateTemplate"} =>
           lastResult = pre.lastResult /\ CountEv(trace, "lastResult") = 0

\* C11 witness: content became empty and the cached result was dropped.
C11_Witness ==
    /\ op.name = "didBecomeEmpty" /\ op.from = "HasContent"
    /\ pre.lastResult # NULL /\ lastResult = NULL
    /\ currentOperations.class = "Empty"

\* The operation was updateTemplate(t) whose rerender() rendered one more node,
\* or dropped the result's first node.
Grew == Reused /\ op.nodes # {}
Shrank == Reused /\ Removals # {}

\* C19: TemplateMorph.firstNode()/lastNode() are lastResult's while there is a
\* lastResult, the new extent after a rerender() that changed it included, and
\* the state machine's otherwise (null in Appending, the placeholder in Empty);
\* they always delimit the nodes that clearing the morph's content would remove.
C19_FirstLastNode ==
    LET f == TemplateMorph_firstNode(currentOperations, heap, lastResult)
        l == TemplateMorph_lastNode(currentOperations, heap, lastResult)
        b == [parent |-> MorphParent, first |-> f, last |-> l]
    IN /\ lastResult # NULL => f = heap[lastResult].first /\ l = heap[lastResult].last
       /\ (lastResult = NULL /\ currentOperations.class = "Appending") =>
              f = NULL /\ l = NULL
       /\ (lastResult = NULL /\ currentOperations.class = "Empty") =>
              /\ f = currentOperations.comment /\ l = f
              /\ f \in comments /\ Has(Children, f)
              /\ Empty_didInsertContent(dom, currentOperations, NULL).log[1]
                     = Ev("remove", f)
       /\ lastResult = NULL => currentOperations.class # "HasContent"
       /\ Grew => /\ l = created /\ l \in op.nodes
                  /\ f = OldResult.first
                  /\ NodesOf(dom, b) = Append(OldNodes, l)
       /\ Shrank => /\ f = NextSibling(pre.dom, OldResult.first)
                    /\ l = OldResult.last
                    /\ <<OldResult.first>> \o NodesOf(dom, b) = OldNodes
       /\ currentOperations.class = "HasContent" =>
              LET r == clear(dom, heap[currentOperations.bounds])
              IN /\ WellFormed(dom, b)
                 /\ ~r.threw
                 /\ r.log = [i \in 1..Len(NodesOf(dom, b)) |->
                                 Ev("remove", NodesOf(dom, b)[i])]
                 /\ r.ret = NextSibling(dom, l)

\* C19 witness: a result over [2, 3] grew by node 4 in rerender(); lastNode()
\* is 4 and a clear would remove 2, 3 and 4.
C19_Witness ==
    /\ Grew
    /\ OldNodes = <<2, 3>>
    /\ TemplateMorph_firstNode(currentOperations, heap, lastResult) = 2
    /\ TemplateMorph_lastNode(currentOperations, heap, lastResult) = 4
    /\ Children = <<1, 2, 3, 4>>
    /\ currentOperations.class = "HasContent"

----------------------------------------------------------------------------
(* Properties of the range algorithms (SpecRange) *)

\* C5: clear() of a well-formed Bounds over N >= 1 of the parent's M children
\* removes exactly those N nodes, keeps the other M - N in order, touches no
\* other parent, and returns what followed lastNode() before the call.
C5_ClearTotality ==
    (op.name = "clear" /\ WellFormed(pre.dom, op.bounds)) =>
        LET b == op.bounds
            s == pre.dom[b.parent]
        IN /\ ~threw
           /\ dom[b.parent] = Before(s, b.first) \o After(s, b.last)
           /\ Len(dom[b.parent]) = Len(s) - Len(NodesOf(pre.dom, b))
           /\ \A p \in Parents \ {b.parent} : dom[p] = pre.dom[p]
           /\ [i \in 1..Len(trace) |-> trace[i].n] = NodesOf(pre.dom, b)
           /\ ret = NextSibling(pre.dom, b.last)

\* C5 witness: two nodes cleared out of the middle of four; the fourth returned.
C5_Witness ==
    /\ op.name = "clear" /\ ~threw
    /\ pre.dom[MorphParent] = <<1, 2, 3, 4>>
    /\ op.bounds = [parent |-> MorphParent, first |-> 2, last |-> 3]
    /\ dom[MorphParent] = <<1, 4>>
    /\ ret = 4

\* C6 (as claimed): clear() of a Bounds whose last node cannot be reached from
\* its first node in the parent throws and removes nothing.
C6_MalformedIsFatal ==
    (op.name = "clear" /\ op.bounds.first # NULL /\ ~WellFormed(pre.dom, op.bounds)) =>
        threw /\ dom = pre.dom

\* C7 (as claimed): insertBoundsBefore() moves all N nodes of a well-formed
\* bounds, in order, to just before reference.firstNode() (to the end for a null
\* anchor) and moves nothing else.
C7_RelocatesBounds ==
    LET b == op.bounds
        ns == IF op.reference # NullBounds THEN op.reference.first ELSE NULL
    IN ( /\ op.name = "insertBoundsBefore"
         /\ WellFormed(pre.dom, b)
         /\ ns # NULL => /\ Has(pre.dom[op.parent], ns)
                         /\ ~Has(NodesOf(pre.dom, b), ns) ) =>
        LET nodes == NodesOf(pre.dom, b)
            rest == [p \in Parents |->
                        SelectSeq(pre.dom[p], LAMBDA x : ~Has(nodes, x))]
            moved == IF ns = NULL THEN rest[op.parent] \o nodes
                     ELSE Before(rest[op.parent], ns) \o nodes \o <<ns>>
                              \o After(rest[op.parent], ns)
        IN /\ ~threw
           /\ dom = [rest EXCEPT ![op.parent] = moved]


\* C13: clearWithComment() of a well-formed Bounds over N of the parent's M
\* children removes those N nodes, puts exactly one new comment where they were
\* and returns a Bounds of that parent whose first and last node is the comment;
\* the parent ends with M - N + 1 children, the others in their order.
C13_ClearWithComment ==
    (op.name = "clearWithComment" /\ WellFormed(pre.dom, op.bounds)) =>
        LET b == op.bounds
            s == pre.dom[b.parent]
            c == pre.created + 1
        IN /\ ~threw
           /\ created = c /\ comments = {c}
           /\ CountEv(trace, "createComment") = 1
           /\ dom[b.parent] = Before(s, b.first) \o <<c>> \o After(s, b.last)
           /\ Len(dom[b.parent]) = Len(s) - Len(NodesOf(pre.dom, b)) + 1
           /\ \A p \in Parents \ {b.parent} : dom[p] = pre.dom[p]
           /\ retObj = Len(heap) /\ Len(heap) = Len(pre.heap) + 1
           /\ heap[retObj].parent = b.parent
           /\ heap[retObj].first = c /\ heap[retObj].last = c

\* C13 witness: [1, 2, 3, 4] with 2..3 cleared became [1, 6, 4].
C13_Witness ==
    /\ op.name = "clearWithComment" /\ ~threw
    /\ pre.dom[MorphParent] = <<1, 2, 3, 4>>
    /\ op.bounds = [parent |-> MorphParent, first |-> 2, last |-> 3]
    /\ dom[MorphParent] = <<1, 6, 4>>
    /\ heap[retObj].first = 6


\* C14: renderIntoBounds() clears the bounds first and then calls
\* template.evaluate exactly once, with the node that followed the cleared range
\* as anchor (null when nothing followed, and null with nothing removed for
\* bounds with no nodes); no node of the bounds is in its parent by then; the
\* evaluation's result is what it returns.
C14_RenderIntoBounds ==
    LET b == op.bounds
        empty == b.first = NULL /\ b.last = NULL
    IN (op.name = "renderIntoBounds" /\ (empty \/ WellFormed(pre.dom, b))) =>
        LET old == IF empty THEN <<>> ELSE NodesOf(pre.dom, b)
            at == Len(old) + 1
        IN /\ CountEv(trace, "evaluate") = 1
           /\ Len(trace) >= at /\ trace[at].e = "evaluate"
           /\ [i \in 1..Len(old) |-> trace[i]] =
                  [i \in 1..Len(old) |-> Ev("remove", old[i])]
           /\ trace[at].n = (IF empty THEN NULL ELSE NextSibling(pre.dom, b.last))
           /\ \A i \in (at + 1)..Len(trace) : trace[i].e = "insert"
           /\ Range(old) \cap Range(dom[b.parent]) = {}
           /\ b.parent = MorphParent =>
                  /\ ~threw
                  /\ retObj = Len(heap) /\ Len(heap) = Len(pre.heap) + 1
                  /\ heap[retObj].kind = "RenderResult"
                  /\ heap[retObj].template = op.t
                  /\ heap[retObj].first = pre.created + 1
                  /\ heap[retObj].last = created
                  /\ Len(trace) = at + Cardinality(op.nodes)

\* C14 witness: [1, 2, 3, 4] with 2..3 rendered into: two removals, then the
\* evaluation anchored at 4.
C14_Witness ==
    /\ op.name = "renderIntoBounds" /\ ~threw
    /\ pre.dom[MorphParent] = <<1, 2, 3, 4>>
    /\ op.bounds = [parent |-> MorphParent, first |-> 2, last |-> 3]
    /\ trace[3] = Ev("evaluate", 4)
    /\ dom[MorphParent] = <<1, 6, 7, 4>>

----------------------------------------------------------------------------
(* Two morphs in one parent (SpecSiblings): a TemplateMorph, in             *)
(* currentOperations and lastResult, and an EmptyableMorph whose subclass   *)
(* renders its content itself, in sibling.  Each is appended once, outside  *)
(* the other's region, and from then on renders at nextSiblingForContent(). *)

\* The children a morph occupies: from firstNode() to lastNode().
RegionOf(d, co, h, lr) ==
    LET b == [parent |-> MorphParent, first |-> TemplateMorph_firstNode(co, h, lr),
              last |-> TemplateMorph_lastNode(co, h, lr)]
    IN IF co.class # "Appending" /\ WellFormed(d, b) THEN NodesOf(d, b) ELSE <<>>

Region1 == RegionOf(dom, currentOperations, heap, lastResult)
Region2 == RegionOf(dom, sibling, heap, NULL)

\* Where the element stack may append a morph: at the end, or before any child
\* that is not inside the other morph's region.
AppendAnchors(others) ==
    {NULL} \cup {n \in Range(Children) : \A i \in 2..Len(others) : others[i] # n}

\* The sibling's subclass renders k nodes and calls didInsertContent(bounds(...)).
SiblingInsertContent(k, ns) ==
    /\ LET d1 == RenderNodes(dom, created, k, ns)
           h1 == Append(heap, ConcreteBounds(MorphParent, created + 1, created + k))
           r == didInsertContent(d1, h1, sibling, Len(h1))
       IN /\ dom' = r.dom
          /\ sibling' = r.co
          /\ heap' = h1
          /\ created' = created + k
          /\ trace' = RenderLog(created, k) \o <<Ev("didInsertContent", NULL)>> \o r.log
          /\ threw' = r.threw
          /\ op' = [NoArg EXCEPT !.name = "didInsertContent", !.from = sibling.class,
                                 !.ns = ns, !.nodes = (created + 1)..(created + k),
                                 !.obj = Len(h1), !.morph = 2]
    /\ past' = <<NoArg, op>>
    /\ pre' = Snapshot
    /\ UNCHANGED <<comments, currentOperations, lastResult, ret, retObj>>

\* The sibling's subclass calls didBecomeEmpty().
SiblingBecomeEmpty ==
    /\ LET r == didBecomeEmpty(dom, heap, sibling, created + 1)
       IN /\ dom' = r.dom
          /\ sibling' = r.co
          /\ created' = created + Cardinality(r.made)
          /\ comments' = comments \cup r.made
          /\ trace' = <<Ev("didBecomeEmpty", NULL)>> \o r.log
          /\ threw' = r.threw
    /\ op' = [NoArg EXCEPT !.name = "didBecomeEmpty", !.from = sibling.class,
                           !.morph = 2]
    /\ past' = <<NoArg, op>>
    /\ pre' = Snapshot
    /\ UNCHANGED <<heap, currentOperations, lastResult, ret, retObj>>

\* The nodes the two morphs may still make.
SharedRoom(n) == created + n <= MaxSharedNodes

NextSiblings ==
    \/ /\ currentOperations.class = "Appending"
       /\ \E template \in Templates : \E ns \in AppendAnchors(Region2) :
              \E k \in 1..MaxContent : SharedRoom(k) /\ AppendTemplate(template, ns, k)
    \/ \E template \in Templates : \E k \in 1..MaxContent :
           SharedRoom(k) /\ UpdateTemplateFresh(template, k)
    \/ \E template \in Templates : \E how \in RerenderKinds :
           (how = "grow" => SharedRoom(1)) /\ UpdateTemplateSame(template, how)
    \/ (currentOperations.class # "Empty" => SharedRoom(1)) /\ TemplateBecomeEmpty
    \/ \E k \in 1..MaxContent :
           \E ns \in (IF sibling.class = "Appending" THEN AppendAnchors(Region1)
                      ELSE {nextSiblingForContent(sibling, heap)}) :
               SharedRoom(k) /\ SiblingInsertContent(k, ns)
    \/ (sibling.class # "Empty" => SharedRoom(1)) /\ SiblingBecomeEmpty

SpecSiblings == Init /\ [][NextSiblings]_vars

PreRegion1 == RegionOf(pre.dom, pre.co, pre.heap, pre.lastResult)
PreRegion2 == RegionOf(pre.dom, pre.sibling, pre.heap, NULL)

\* s without the nodes of region r.
Outside(s, r) == SelectSeq(s, LAMBDA n : ~Has(r, n))

\* C17: once both morphs have left Appending, an operation on either of them
\* replaces that morph's own region in place: the other morph's region and the
\* unrelated children are not removed, moved or reordered, the other morph's
\* state is untouched, and the two regions keep their relative order.
C17_SiblingIsolation ==
    (op.name # "none" /\ pre.co.class # "Appending" /\ pre.sibling.class # "Appending") =>
        LET mineOld == IF op.morph = 1 THEN PreRegion1 ELSE PreRegion2
            mineNew == IF op.morph = 1 THEN Region1 ELSE Region2
            otherOld == IF op.morph = 1 THEN PreRegion2 ELSE PreRegion1
            otherNew == IF op.morph = 1 THEN Region2 ELSE Region1
        IN /\ ~threw
           /\ mineOld # <<>> /\ mineNew # <<>> /\ otherOld # <<>>
           /\ otherNew = otherOld
           /\ IF op.morph = 1 THEN sibling = pre.sibling
              ELSE currentOperations = pre.co /\ lastResult = pre.lastResult
           /\ Range(mineNew) \cap Range(otherNew) = {}
           /\ Children = Before(PreChildren, mineOld[1]) \o mineNew
                             \o After(PreChildren, mineOld[Len(mineOld)])
           /\ Outside(Children, mineNew) = Outside(PreChildren, mineOld)
           /\ (IndexOf(Children, Region1[1]) < IndexOf(Children, Region2[1]))
                  <=> (IndexOf(PreChildren, PreRegion1[1])
                           < IndexOf(PreChildren, PreRegion2[1]))

\* C17 witness: [1 | 2 3 | 4] with the TemplateMorph on 2..3 and the sibling on
\* 4, right behind it; the TemplateMorph switches to a template of one node.
C17_Witness ==
    /\ op.name = "updateTemplate" /\ op.morph = 1 /\ op.from = "HasContent"
    /\ PreChildren = <<1, 2, 3, 4>>
    /\ PreRegion1 = <<2, 3>> /\ PreRegion2 = <<4>>
    /\ Children = <<1, 5, 4>>
    /\ Region1 = <<5>> /\ Region2 = <<4>>

====
